---- MODULE Spec2Model ----
(***************************************************************************)
(* Model of the Gemini TTS server (src/index.js, lines 1-252: the variant  *)
(* with the WAV routes and the /vapi-tts raw-PCM webhook).                 *)
(*                                                                         *)
(* Strings are sequences of tokens: a token is one character (" ", ":",   *)
(* "h") or a whole identifier that contains neither ':' nor white space    *)
(* ("Kore").  Template-literal concatenation is sequence concatenation.    *)
(* Buffers are sequences of bytes (0..255).  JavaScript values that may be *)
(* absent are records [t |-> "undefined"], [t |-> "string", v |-> ...],    *)
(* [t |-> "number", v |-> ...].                                            *)
(***************************************************************************)
EXTENDS Integers, Sequences, FiniteSets, TLC

\* ------------------------------------------------------------------ bounds
\* Requests the server receives in one behaviour.
MaxReqs == 2
\* The clock is observed at the instants k * CACHE_TTL_MS + d, k <= MaxPeriods.
MaxPeriods == 1

\* --------------------------------------------------------------- JS values
Undefined == [t |-> "undefined"]
Str(s) == [t |-> "string", v |-> s]
Num(n) == [t |-> "number", v |-> n]

\* JavaScript truthiness of a value (the left operand of ||, the operand of !).
Truthy(x) ==
  CASE x.t = "undefined" -> FALSE
    [] x.t = "string" -> x.v # <<>>
    [] x.t = "number" -> x.v # 0

\* a || b
OrElse(a, b) == IF Truthy(a) THEN a ELSE b

\* ------------------------------------------------------------------ config
DEFAULT_MODEL == <<"gemini-2.5-flash-preview-tts">>
DEFAULT_VOICE == <<"Kore">>
CACHE_TTL_MS == 10 * 60 * 1000

\* --------------------------------------------------------------- pcm16ToWav
\* The i-th byte (0-based) of the little-endian encoding of v.
RECURSIVE Pow256(_)
Pow256(i) == IF i = 0 THEN 1 ELSE 256 * Pow256(i - 1)

\* header.writeUInt32LE(v, off) / header.writeUInt16LE(v, off): the bytes written.
UInt32LE(v) == [i \in 1..4 |-> (v \div Pow256(i - 1)) % 256]
UInt16LE(v) == [i \in 1..2 |-> (v \div Pow256(i - 1)) % 256]

\* header.write('RIFF', 0) etc.: the ASCII codes written.
AsciiRIFF == <<82, 73, 70, 70>>
AsciiWAVE == <<87, 65, 86, 69>>
AsciiFmt == <<102, 109, 116, 32>>
AsciiData == <<100, 97, 116, 97>>

\* Mutant: the RIFF size field counts the whole file instead of the file minus 8.
pcm16ToWavWholeSize(pcmBuffer, sampleRate, channels, bitsPerSample) ==
  AsciiRIFF \o UInt32LE(44 + Len(pcmBuffer)) \o AsciiWAVE
    \o AsciiFmt \o UInt32LE(16) \o UInt16LE(1) \o UInt16LE(channels)
    \o UInt32LE(sampleRate) \o UInt32LE(sampleRate * channels * (bitsPerSample \div 8))
    \o UInt16LE(channels * (bitsPerSample \div 8)) \o UInt16LE(bitsPerSample)
    \o AsciiData \o UInt32LE(Len(pcmBuffer)) \o pcmBuffer

pcm16ToWav(pcmBuffer, sampleRate, channels, bitsPerSample) ==
  LET byteRate == sampleRate * channels * (bitsPerSample \div 8)
      blockAlign == channels * (bitsPerSample \div 8)
      header == AsciiRIFF \o UInt32LE(36 + Len(pcmBuffer)) \o AsciiWAVE
                \o AsciiFmt \o UInt32LE(16) \o UInt16LE(1) \o UInt16LE(channels)
                \o UInt32LE(sampleRate) \o UInt32LE(byteRate)
                \o UInt16LE(blockAlign) \o UInt16LE(bitsPerSample)
                \o AsciiData \o UInt32LE(Len(pcmBuffer))
  IN header \o pcmBuffer

\* ------------------------------------------------- Buffer.from(s, 'base64')
\* A base64 string is a sequence of sextets 0..63 (the alphabet index of each
\* character); Pad stands for '='.
Pad == 64

\* The characters before the first '='.
RECURSIVE UpToPad(_)
UpToPad(s) ==
  IF s = <<>> \/ Head(s) = Pad THEN <<>> ELSE <<Head(s)>> \o UpToPad(Tail(s))

\* Decoding of a pad-free sextet sequence: every 4 sextets give 3 bytes, a
\* trailing group of 3 gives 2 bytes, of 2 gives 1 byte, of 1 gives none.
RECURSIVE DecodeSextets(_)
DecodeSextets(s) ==
  IF Len(s) < 2 THEN <<>>
  ELSE LET b1 == (s[1] * 4 + (s[2] \div 16)) % 256
       IN IF Len(s) = 2 THEN <<b1>>
          ELSE LET b2 == ((s[2] % 16) * 16 + (s[3] \div 4)) % 256
               IN IF Len(s) = 3 THEN <<b1, b2>>
                  ELSE LET b3 == ((s[3] % 4) * 64 + s[4]) % 256
                       IN <<b1, b2, b3>> \o DecodeSextets(SubSeq(s, 5, Len(s)))

BufferFromBase64(s) == DecodeSextets(UpToPad(s))

\* ------------------------------------------------------------------ strings
\* String.prototype.trim(): white space removed from both ends.
RECURSIVE TrimStart(_)
TrimStart(s) == IF s # <<>> /\ Head(s) = " " THEN TrimStart(Tail(s)) ELSE s

RECURSIVE TrimEnd(_)
TrimEnd(s) ==
  IF s # <<>> /\ s[Len(s)] = " " THEN TrimEnd(SubSeq(s, 1, Len(s) - 1)) ELSE s

Trim(s) == TrimEnd(TrimStart(s))

\* (text || '').toString()
TextOf(text) == OrElse(text, Str(<<>>)).v

\* Mutant: the voice is left out of the fingerprint.
makeKeyNoVoice(text, voice, model) == model \o <<":", ":">> \o text

\* `${model}::${voice}::${text}`
makeKey(text, voice, model) == model \o <<":", ":">> \o voice \o <<":", ":">> \o text

\* `wav::${makeKey(...)}` and `pcm::${makeKey(...)}`
WavKey(text, voice, model) == <<"w", "a", "v", ":", ":">> \o makeKey(text, voice, model)
PcmKey(text, voice, model) == <<"p", "c", "m", ":", ":">> \o makeKey(text, voice, model)

\* ------------------------------------------------------------------ inputs
\* An item { text, voice?, model? } of a request body.
Item(text, voice, model) == [text |-> text, voice |-> voice, model |-> model]

BlankItems ==
  { Item(Undefined, Undefined, Undefined),
    Item(Str(<<" ">>), Undefined, Undefined) }

SpeechItems ==
  { Item(Str(<<"h">>), Undefined, Undefined),
    Item(Str(<<" ", "h">>), Undefined, Undefined),
    Item(Str(<<"h", ":", ":", "h">>), Undefined, Undefined),
    Item(Str(<<"h">>), Str(<<"Kore", ":", ":", "h">>), Undefined),
    Item(Str(<<"h">>), Undefined, Str(<<"m1">>)) }

Items == BlankItems \cup SpeechItems

\* req.body.items: absent, an empty array, or an array of items.
BatchInputs ==
  { Undefined,
    [t |-> "array", v |-> <<>>],
    [t |-> "array", v |-> << Item(Str(<<" ">>), Undefined, Undefined),
                             Item(Str(<<"h">>), Undefined, Undefined) >>],
    [t |-> "array", v |-> << Item(Str(<<"h">>), Undefined, Undefined),
                             Item(Str(<<" ", "h">>), Undefined, Undefined) >>] }

\* req.body.message of /vapi-tts.
Message(type, text, sampleRate) ==
  [t |-> "object", type |-> type, text |-> text, sampleRate |-> sampleRate]

\* A good payload and one with a blank text.
VapiGood == Message(Str(<<"voice-request">>), Str(<<"h">>), Num(24000))
VapiBlank == Message(Str(<<"voice-request">>), Str(<<" ">>), Num(24000))

Messages ==
  { Undefined,
    Message(Str(<<"status-update">>), Str(<<"h">>), Undefined),
    Message(Str(<<"voice-request">>), Undefined, Undefined),
    Message(Str(<<"voice-request">>), Str(<<"h">>), Undefined),
    Message(Str(<<"voice-request">>), Str(<<"h">>), Num(0)),
    Message(Str(<<"voice-request">>), Str(<<"h">>), Num(16000)),
    VapiGood, VapiBlank }

\* <<VAPI_TTS_SECRET, x-vapi-signature, message>>: with the secret set, every
\* message under the right signature and two under a wrong or absent one;
\* without a secret, two messages under any or no signature.
VapiInputs ==
  { <<Str(<<"abc">>), Str(<<"abc">>), m>> : m \in Messages } \cup
  { <<ex, tk, m>> : ex \in { Undefined, Str(<<"abc">>) },
                    tk \in { Undefined, Str(<<"xyz">>) },
                    m \in { VapiGood, VapiBlank } }

\* The bodies of /tts-url requests.
UrlItems ==
  { Item(Str(<<" ">>), Undefined, Undefined),
    Item(Str(<<"h">>), Undefined, Undefined) }

\* What ai.models.generateContent does: it rejects, or it resolves to a response
\* whose ...inlineData.data is absent or a base64 string ("EQ==" and
\* "AAAAAA==": the single byte 17, four zero bytes).
Throw == [t |-> "throw"]

BackendOutcomes ==
  { Throw,
    Undefined,
    Str(<<4, 16, Pad, Pad>>),
    Str(<<0, 0, 0, 0, 0, 0, Pad, Pad>>) }

\* The instants at which the clock is read.
ClockValues ==
  { t \in { k * CACHE_TTL_MS + d : k \in 0..MaxPeriods, d \in {-1, 0} } : t >= 0 }

\* ------------------------------------------------------------------- state
VARIABLES
  now,         \* Date.now()
  audioCache,  \* key -> [buf, createdAt]   (wavBuf entries)
  pcmCache,    \* key -> [buf, createdAt]   (pcm entries)
  audioDir,    \* the files of PUBLIC_AUDIO_DIR, in creation order
  reqs         \* the requests received so far, each with its synthesize calls

vars == <<now, audioCache, pcmCache, audioDir, reqs>>

\* Mutant: a set that keeps the entry a key already has.
MapSetIfAbsent(m, k, e) == [x \in DOMAIN m \cup {k} |-> IF x \in DOMAIN m THEN m[x] ELSE e]
\* Map.prototype.set
MapSet(m, k, e) == [x \in DOMAIN m \cup {k} |-> IF x = k THEN e ELSE m[x]]

\* Mutant: an entry exactly CACHE_TTL_MS old still counts as fresh.
FreshInclusive(entry, t) == (t - entry.createdAt) <= CACHE_TTL_MS

\* hit && (now - hit.createdAt) < CACHE_TTL_MS, for an entry that exists
Fresh(entry, t) == (t - entry.createdAt) < CACHE_TTL_MS

\* Mutant: the text is not trimmed before the test.
IsEmpty(t) == t = <<>>

\* !t.trim()
IsBlank(t) == Trim(t) = <<>>

\* A synthesize call (or an item that never reached one).
\*   pc       "invalid" (rejected before the call), "await" (suspended at
\*            generateContent), "done" (returned), "failed" (threw)
\*   seenAt   createdAt of the entry cache.get(key) returned, -1 if none
\*   invoked  generateContent was called
Job(pc, kind, text, voice, model, key, t, seenAt, hit, out) ==
  [pc |-> pc, kind |-> kind, text |-> text, voice |-> voice, model |-> model,
   key |-> key, now |-> t, seenAt |-> seenAt, hit |-> hit,
   invoked |-> (pc = "await"), base64 |-> Undefined, out |-> out,
   doneAt |-> IF pc = "await" THEN -1 ELSE t, file |-> 0, error |-> <<>>]

InvalidJob(kind, text) ==
  Job("invalid", kind, text, <<>>, <<>>, <<>>, now, -1, FALSE, <<>>)

\* The part of synthesizeToWav / synthesizeToPcm that runs before the await:
\* the key, the clock, the cache lookup and either the cached payload or the
\* call of the backend.
Synthesize(kind, cache, key, text, voice, model) ==
  IF key \in DOMAIN cache /\ Fresh(cache[key], now)
  THEN Job("done", kind, text, voice, model, key, now,
           cache[key].createdAt, TRUE, cache[key].buf)
  ELSE Job("await", kind, text, voice, model, key, now,
           IF key \in DOMAIN cache THEN cache[key].createdAt ELSE -1, FALSE, <<>>)

synthesizeToWav(text, voice, model) ==
  Synthesize("wav", audioCache, WavKey(text, voice, model), text, voice, model)

\* Mutant: the raw-PCM path looks its key up in the WAV cache.
synthesizeToPcmShared(text, voice, model) ==
  Synthesize("pcm", audioCache, WavKey(text, voice, model), text, voice, model)

synthesizeToPcm(text, voice, model) ==
  Synthesize("pcm", pcmCache, PcmKey(text, voice, model), text, voice, model)

\* A request and the state of its handler; status 0: no response sent yet.
\* expected: process.env.VAPI_TTS_SECRET as the /vapi-tts handler read it.
Req(route, expected, token, message, items, jobs, status, results, error) ==
  [route |-> route, expected |-> expected, token |-> token, message |-> message,
   items |-> items,
   jobs |-> jobs, status |-> status, results |-> results, error |-> error]

Init ==
  /\ now = 0
  /\ audioCache = <<>>
  /\ pcmCache = <<>>
  /\ audioDir = <<>>
  /\ reqs = <<>>

\* Time passes, as long as a request or a backend response is still to come
\* (the clock is only ever read by a handler).
Tick ==
  /\ Len(reqs) < MaxReqs \/ \E r \in DOMAIN reqs : reqs[r].status = 0
  /\ \E t \in ClockValues : t > now /\ now' = t
  /\ UNCHANGED <<audioCache, pcmCache, audioDir, reqs>>

\* item?.voice || DEFAULT_VOICE, item?.model || DEFAULT_MODEL
UseVoice(item) == OrElse(item.voice, Str(DEFAULT_VOICE)).v
UseModel(item) == OrElse(item.model, Str(DEFAULT_MODEL)).v

\* fs.writeFileSync(path.join(PUBLIC_AUDIO_DIR, `${crypto.randomUUID()}.wav`), wavBuf):
\* the directory afterwards; the new file is named by its position.
WriteFile(dir, wavBuf) == Append(dir, wavBuf)

\* A job of a URL route that has returned gets its file.
WithFile(job, dir) == [job EXCEPT !.file = Len(dir) + 1]

\* ------------------------------------------------------ POST /tts, /tts-url
PostTts(route, item) ==
  LET t == TextOf(item.text) IN
  /\ Len(reqs) < MaxReqs
  /\ IF IsBlank(t)
     THEN /\ reqs' = Append(reqs, Req(route, Undefined, Undefined, Undefined, <<item>>,
                                      <<InvalidJob("wav", t)>>, 400, <<>>,
                                      "Missing required \"text\" string."))
          /\ UNCHANGED audioDir
     ELSE LET job == synthesizeToWav(t, UseVoice(item), UseModel(item)) IN
          IF job.pc = "done" /\ route = "/tts-url"
          THEN /\ audioDir' = WriteFile(audioDir, job.out)
               /\ reqs' = Append(reqs, Req(route, Undefined, Undefined, Undefined, <<item>>,
                                           <<WithFile(job, audioDir)>>, 200, <<>>, ""))
          ELSE /\ reqs' = Append(reqs, Req(route, Undefined, Undefined, Undefined, <<item>>, <<job>>,
                                           IF job.pc = "done" THEN 200 ELSE 0, <<>>, ""))
               /\ UNCHANGED audioDir
  /\ UNCHANGED <<now, audioCache, pcmCache>>

\* ---------------------------------------------------------- POST /vapi-tts
\* Number(message.sampleRate || 24000), for an absent or numeric sampleRate
SampleRateOf(message) == OrElse(message.sampleRate, Num(24000)).v

\* Mutant: a request without the header passes the check.
UnauthorizedIfPresent(expected, token) ==
  Truthy(expected) /\ Truthy(token) /\ token # expected

\* expected && token !== expected
Unauthorized(expected, token) == Truthy(expected) /\ token # expected

PostVapiTts(expected, token, message) ==
  LET Reply(jobs, status, error) ==
        reqs' = Append(reqs, Req("/vapi-tts", expected, token, message, <<>>, jobs, status, <<>>, error))
  IN
  /\ Len(reqs) < MaxReqs
  /\ IF Unauthorized(expected, token)
     THEN Reply(<<>>, 401, "Unauthorized")
     ELSE IF message = Undefined \/ message.type # Str(<<"voice-request">>)
     THEN Reply(<<>>, 400, "Invalid payload: expected message.type=\"voice-request\"")
     ELSE LET text == TextOf(message.text) IN
          IF IsBlank(text)
          THEN Reply(<<InvalidJob("pcm", text)>>, 400, "Missing text")
          ELSE IF SampleRateOf(message) # 24000
          THEN Reply(<<>>, 400, "Only 24000 Hz supported by this TTS server")
          ELSE LET job == synthesizeToPcm(text, DEFAULT_VOICE, DEFAULT_MODEL) IN
               Reply(<<job>>, IF job.pc = "done" THEN 200 ELSE 0, "")
  /\ UNCHANGED <<now, audioCache, pcmCache, audioDir>>

\* --------------------------------------------------------- POST /batch-url
\* The value one item's async callback resolves to.
Outcome(job) ==
  CASE job.pc = "invalid" -> [error |-> <<"Missing text">>]
    [] job.pc = "failed" ->
         [error |-> IF job.error # <<>> THEN job.error ELSE <<"synthesis failed">>]
    [] job.pc = "done" ->
         [text |-> job.text, url |-> job.file, model |-> job.model, voice |-> job.voice,
          sampleRate |-> 24000, channels |-> 1]

\* A slot of the array Promise.all fills, before its promise is fulfilled.
Pending == [pending |-> TRUE]

\* Mutant: a value goes to the first free position, in order of completion.
SettleNext(results, i, outcome) ==
  LET k == CHOOSE k \in DOMAIN results :
             results[k] = Pending /\ \A m \in 1..(k - 1) : results[m] # Pending
  IN [results EXCEPT ![k] = outcome]

\* Promise.all: the value of the i-th promise goes to position i.
SettleAt(results, i, outcome) == [results EXCEPT ![i] = outcome]

RECURSIVE SettleEach(_, _, _)
SettleEach(results, idxs, jobs) ==
  IF idxs = <<>> THEN results
  ELSE SettleEach(SettleAt(results, Head(idxs), Outcome(jobs[Head(idxs)])), Tail(idxs), jobs)

\* The indices i of 1..n with P(i), ascending.
Indices(n, P(_)) == SelectSeq([i \in 1..n |-> i], P)

\* res.json({ results }) once every promise is fulfilled.
BatchStatus(results) == IF \A i \in DOMAIN results : results[i] # Pending THEN 200 ELSE 0

PostBatchUrl(items) ==
  /\ Len(reqs) < MaxReqs
  /\ IF items = Undefined \/ Len(items.v) = 0
     THEN /\ reqs' = Append(reqs, Req("/batch-url", Undefined, Undefined, Undefined, items, <<>>, 400, <<>>,
                                      "Provide items: an array of { text, voice?, model? }"))
          /\ UNCHANGED audioDir
     ELSE LET n == Len(items.v)
              \* items.map(async (item) => ...): every callback runs up to its
              \* first suspension
              started == [i \in 1..n |->
                           LET t == TextOf(items.v[i].text) IN
                           IF IsBlank(t) THEN InvalidJob("wav", t)
                           ELSE synthesizeToWav(t, UseVoice(items.v[i]), UseModel(items.v[i]))]
              invalid == Indices(n, LAMBDA i : started[i].pc = "invalid")
              hits == Indices(n, LAMBDA i : started[i].pc = "done")
              \* the callbacks served from the cache go on to write their files
              rank(i) == Len(SelectSeq(hits, LAMBDA k : k <= i))
              jobs == [i \in 1..n |->
                        IF started[i].pc = "done"
                        THEN [started[i] EXCEPT !.file = Len(audioDir) + rank(i)]
                        ELSE started[i]]
              results == SettleEach([i \in 1..n |-> Pending], invalid \o hits, jobs)
          IN /\ audioDir' = audioDir \o [k \in 1..Len(hits) |-> jobs[hits[k]].out]
             /\ reqs' = Append(reqs, Req("/batch-url", Undefined, Undefined, Undefined, items, jobs,
                                         BatchStatus(results), results, ""))
  /\ UNCHANGED <<now, audioCache, pcmCache>>

\* ------------------------------------------- generateContent settles (await)
\* audioCache.set(key, { wavBuf, createdAt: now }) / pcmCache.set(key, { pcm, createdAt: now })
CacheEntry(job, buf) == [buf |-> buf, createdAt |-> job.now]

\* Mutant: a response without an audio payload is taken as zero bytes of audio.
FinishLenient(job, resp) ==
  IF resp = Throw
  THEN [job EXCEPT !.pc = "failed", !.doneAt = now, !.error = <<"backend error">>]
  ELSE LET pcm == IF Truthy(resp) THEN BufferFromBase64(resp.v) ELSE <<>>
           out == IF job.kind = "wav" THEN pcm16ToWav(pcm, 24000, 1, 16) ELSE pcm
       IN [job EXCEPT !.pc = "done", !.doneAt = now, !.base64 = resp, !.out = out]
\* The rest of synthesizeToWav / synthesizeToPcm after the await.
Finish(job, resp) ==
  IF resp = Throw
  THEN [job EXCEPT !.pc = "failed", !.doneAt = now, !.error = <<"backend error">>]
  ELSE IF ~Truthy(resp)
  THEN [job EXCEPT !.pc = "failed", !.doneAt = now, !.base64 = resp,
                   !.error = <<"No audio produced by model">>]
  ELSE LET pcm == BufferFromBase64(resp.v)
           out == IF job.kind = "wav" THEN pcm16ToWav(pcm, 24000, 1, 16) ELSE pcm
       IN [job EXCEPT !.pc = "done", !.doneAt = now, !.base64 = resp, !.out = out]

BackendReturn(r, i, resp) ==
  LET req == reqs[r]
      fin == Finish(req.jobs[i], resp)
      ok == fin.pc = "done"
      url == req.route \in {"/tts-url", "/batch-url"}
      job == IF ok /\ url THEN WithFile(fin, audioDir) ELSE fin
      jobs == [req.jobs EXCEPT ![i] = job]
      results == IF req.route = "/batch-url"
                 THEN SettleAt(req.results, i, Outcome(job)) ELSE req.results
      status == IF req.route = "/batch-url" THEN BatchStatus(results)
                ELSE IF ok THEN 200 ELSE 500
  IN
  /\ req.jobs[i].pc = "await"
  /\ audioCache' = IF ok /\ job.kind = "wav"
                   THEN MapSet(audioCache, job.key, CacheEntry(job, job.out)) ELSE audioCache
  /\ pcmCache' = IF ok /\ job.kind = "pcm"
                 THEN MapSet(pcmCache, job.key, CacheEntry(job, job.out)) ELSE pcmCache
  /\ audioDir' = IF ok /\ url THEN WriteFile(audioDir, job.out) ELSE audioDir
  /\ reqs' = [reqs EXCEPT ![r] = [req EXCEPT !.jobs = jobs, !.results = results,
                                             !.status = status,
                                             !.error = IF status = 500 THEN "TTS failed" ELSE req.error]]
  /\ UNCHANGED now

\* ------------------------------------------------------------ specification
Next ==
  \/ Tick
  \/ \E item \in Items : PostTts("/tts", item)
  \/ \E item \in UrlItems : PostTts("/tts-url", item)
  \/ \E items \in BatchInputs : PostBatchUrl(items)
  \/ \E in \in VapiInputs : PostVapiTts(in[1], in[2], in[3])
  \/ \E r \in DOMAIN reqs : \E i \in DOMAIN reqs[r].jobs : \E resp \in BackendOutcomes :
       BackendReturn(r, i, resp)

Spec == Init /\ [][Next]_vars

\* ==================================================================== claims
\* The synthesize calls made so far, as <<request, item>> positions.
Positions == UNION { { <<r, i>> : i \in DOMAIN reqs[r].jobs } : r \in DOMAIN reqs }
JobAt(p) == reqs[p[1]].jobs[p[2]]
Calls == { p \in Positions : JobAt(p).pc # "invalid" }
Triple(j) == <<j.text, j.voice, j.model>>
SameArgs(a, b) == a.kind = b.kind /\ Triple(a) = Triple(b)

\* White space only (the empty string included).
OnlySpaces(t) == \A k \in 1..Len(t) : t[k] = " "

\* The little-endian number in bytes off .. off+n-1 (0-based) of buffer w.
RECURSIVE ReadLE(_, _, _)
ReadLE(w, off, n) == IF n = 0 THEN 0 ELSE w[off + 1] + 256 * ReadLE(w, off + 1, n - 1)

\* ---- C1
\* C1: when a call has completed successfully and a second call with the same
\* (text, voice, model, kind) begins afterwards, less than CACHE_TTL_MS after
\* the completion, and these are the only calls for the key, the backend is
\* invoked at most once by the two and the second returns the first's bytes.
C1_HitWithinTtlOfCompletion ==
  \A p \in Calls : \A q \in Calls :
    LET a == JobAt(p)
        b == JobAt(q)
    IN ( /\ p # q
         /\ a.pc = "done"
         /\ SameArgs(a, b)
         /\ b.now > a.doneAt
         /\ b.now - a.doneAt < CACHE_TTL_MS
         /\ \A c \in Calls : JobAt(c).key = a.key => c \in {p, q} )
       => ( /\ ~(a.invoked /\ b.invoked)
            /\ b.pc = "done"
            /\ b.out = a.out )

\* ---- C2
\* C2: a call that reads an entry of age now - createdAt >= CACHE_TTL_MS does
\* not return from the cache but invokes the backend; a call returns from the
\* cache only if it read an entry of age < CACHE_TTL_MS.
C2_Expiry ==
  \A p \in Calls :
    LET j == JobAt(p) IN
    /\ (j.seenAt >= 0 /\ j.now - j.seenAt >= CACHE_TTL_MS) => (~j.hit /\ j.invoked)
    /\ j.hit => (j.seenAt >= 0 /\ j.now - j.seenAt < CACHE_TTL_MS /\ ~j.invoked)

\* A call read an entry exactly CACHE_TTL_MS old and went to the backend.
C2_Witness ==
  \E p \in Calls :
    LET j == JobAt(p) IN j.seenAt >= 0 /\ j.now - j.seenAt = CACHE_TTL_MS /\ j.invoked

\* ---- C3
\* C3: a call served from the cache returns bytes that a call of its own kind
\* for its own key obtained from the backend and stored; every entry of the WAV
\* cache was stored by a WAV call and every entry of the PCM cache by a raw-PCM
\* call.
StoredBy(kind, key, buf) ==
  \E q \in Calls :
    LET s == JobAt(q) IN
    s.kind = kind /\ s.invoked /\ s.pc = "done" /\ s.key = key /\ s.out = buf

C3_KindIsolation ==
  /\ \A p \in Calls : JobAt(p).hit => StoredBy(JobAt(p).kind, JobAt(p).key, JobAt(p).out)
  /\ \A k \in DOMAIN audioCache : StoredBy("wav", k, audioCache[k].buf)
  /\ \A k \in DOMAIN pcmCache : StoredBy("pcm", k, pcmCache[k].buf)

\* A WAV call and a raw-PCM call for the same (text, voice, model) have both
\* returned, the PCM one after the WAV one had stored its buffer.
C3_Witness ==
  \E p \in Calls : \E q \in Calls :
    LET a == JobAt(p)
        b == JobAt(q)
    IN /\ a.kind = "wav" /\ b.kind = "pcm" /\ Triple(a) = Triple(b)
       /\ a.pc = "done" /\ b.pc = "done"
       /\ p[1] < q[1]
       /\ a.key \in DOMAIN audioCache /\ b.key \in DOMAIN pcmCache

\* ---- C4
\* The fields of a WAV buffer w wrapping pcm with the fixed profile.
WavFields(w, pcm) ==
  /\ Len(w) = 44 + Len(pcm)
  /\ ReadLE(w, 4, 4) = 36 + Len(pcm)
  /\ ReadLE(w, 22, 2) = 1
  /\ ReadLE(w, 24, 4) = 24000
  /\ ReadLE(w, 28, 4) = 48000
  /\ ReadLE(w, 32, 2) = 2
  /\ ReadLE(w, 34, 2) = 16
  /\ ReadLE(w, 40, 4) = Len(pcm)
  /\ SubSeq(w, 45, Len(w)) = pcm

\* C4: the buffer synthesizeToWav builds from the decoded PCM bytes has length
\* 44 + len(pcm), the little-endian header fields of the 24000 Hz mono 16-bit
\* profile, and the PCM bytes unmodified from offset 44; so does the buffer
\* pcm16ToWav builds from each sample PCM buffer.
\* PCM buffers of several lengths, short ones and ones whose length needs more
\* than one byte of the size fields.
SamplePcm == { [i \in 1..n |-> (7 * i) % 256] : n \in {0, 1, 2, 4, 255, 256, 300} }

C4_WavLayout ==
  /\ \A p \in Calls :
       LET j == JobAt(p) IN
       (j.kind = "wav" /\ j.invoked /\ j.pc = "done")
         => WavFields(j.out, BufferFromBase64(j.base64.v))
  /\ (reqs = <<>> /\ now = 0) =>
       \A pcm \in SamplePcm : WavFields(pcm16ToWav(pcm, 24000, 1, 16), pcm)

\* 4 zero PCM bytes were wrapped: a 48-byte buffer with data length 4.
C4_Witness ==
  \E p \in Calls :
    LET j == JobAt(p) IN
    /\ j.kind = "wav" /\ j.invoked /\ j.pc = "done"
    /\ BufferFromBase64(j.base64.v) = <<0, 0, 0, 0>>
    /\ Len(j.out) = 48 /\ ReadLE(j.out, 40, 4) = 4

\* ---- C5
\* Every file of the audio directory and every cache entry belongs to a call
\* that went to the backend or was served from the cache, for a non-blank text.
NoBlankArtifacts ==
  /\ \A p \in Positions :
       OnlySpaces(JobAt(p).text) =>
         (~JobAt(p).invoked /\ JobAt(p).out = <<>> /\ JobAt(p).file = 0)
  /\ \A f \in DOMAIN audioDir :
       \E p \in Calls : JobAt(p).file = f /\ ~OnlySpaces(JobAt(p).text)
  /\ \A k \in DOMAIN audioCache : \E p \in Calls : JobAt(p).key = k /\ JobAt(p).invoked
  /\ \A k \in DOMAIN pcmCache : \E p \in Calls : JobAt(p).key = k /\ JobAt(p).invoked

\* The text of a request is missing, empty or white space only.
BlankText(v) == v = Undefined \/ OnlySpaces(v.v)
BlankVapi(req) == req.message = Undefined \/ BlankText(req.message.text)

\* A /tts or /tts-url request with a blank text is answered 400 without a call.
BlankWavRejected ==
  \A r \in DOMAIN reqs :
    (reqs[r].route \in {"/tts", "/tts-url"} /\ BlankText(reqs[r].items[1].text))
      => (reqs[r].status = 400 /\ \A i \in DOMAIN reqs[r].jobs : ~reqs[r].jobs[i].invoked)

\* A blank item of a batch resolves to an object with only an error field.
BlankItemRejected ==
  \A r \in DOMAIN reqs :
    (reqs[r].route = "/batch-url" /\ reqs[r].jobs # <<>>) =>
      \A i \in DOMAIN reqs[r].jobs :
        BlankText(reqs[r].items.v[i].text) =>
          (DOMAIN reqs[r].results[i] = {"error"} /\ ~reqs[r].jobs[i].invoked)

\* C5 as stated: a request with a missing, empty or white-space-only text is
\* answered 400 (a batch item: {error}) on every route, /vapi-tts included, and
\* no backend call, cache entry or file is made for it.
C5_BlankRejected400 ==
  /\ NoBlankArtifacts
  /\ BlankWavRejected
  /\ BlankItemRejected
  /\ \A r \in DOMAIN reqs :
       (reqs[r].route = "/vapi-tts" /\ BlankVapi(reqs[r]))
         => (reqs[r].status = 400 /\ \A i \in DOMAIN reqs[r].jobs : ~reqs[r].jobs[i].invoked)

\* C5 amended: as above, except that /vapi-tts answers 401 when the signature
\* check fails and 400 only when it passes; in both cases nothing is synthesized.
C5_BlankRejected ==
  /\ NoBlankArtifacts
  /\ BlankWavRejected
  /\ BlankItemRejected
  /\ \A r \in DOMAIN reqs :
       (reqs[r].route = "/vapi-tts" /\ BlankVapi(reqs[r]))
         => /\ reqs[r].status =
                 IF reqs[r].expected # Undefined /\ reqs[r].token # reqs[r].expected
                 THEN 401 ELSE 400
            /\ \A i \in DOMAIN reqs[r].jobs : ~reqs[r].jobs[i].invoked

\* A white-space-only text was rejected on a WAV route and on the webhook
\* after the signature check had passed, while another call stored an entry.
C5_Witness ==
  /\ \E r \in DOMAIN reqs :
       reqs[r].route = "/vapi-tts" /\ reqs[r].message # Undefined
         /\ reqs[r].message.text = Str(<<" ">>) /\ reqs[r].status = 400
  /\ \E r \in DOMAIN reqs :
       reqs[r].route = "/batch-url" /\ reqs[r].jobs # <<>>
         /\ reqs[r].items.v[1].text = Str(<<" ">>) /\ reqs[r].status = 200
         /\ audioCache # <<>>

\* ---- C6
\* C6: a batch response has one result per item, at the item's position: the
\* item's own success object (its text, its file) or, for an item that was
\* rejected or whose synthesis failed, an object with only an error field; the
\* response is sent (200, never an error) exactly when every item has settled.
C6_BatchOrder ==
  \A r \in DOMAIN reqs :
    LET req == reqs[r] IN
    (req.route = "/batch-url" /\ req.items # Undefined /\ Len(req.items.v) > 0) =>
      /\ Len(req.results) = Len(req.items.v)
      /\ Len(req.jobs) = Len(req.items.v)
      /\ req.status \in {0, 200}
      /\ req.status = 200 <=> \A i \in DOMAIN req.jobs : req.jobs[i].pc # "await"
      /\ \A i \in DOMAIN req.jobs :
           LET j == req.jobs[i]
               res == req.results[i]
           IN /\ j.text = TextOf(req.items.v[i].text)
              /\ j.pc = "await" => res = Pending
              /\ j.pc = "invalid" => res = [error |-> <<"Missing text">>]
              /\ j.pc = "failed" => (DOMAIN res = {"error"} /\ res.error = j.error)
              /\ j.pc = "done" =>
                   /\ res.text = TextOf(req.items.v[i].text)
                   /\ res.url = j.file
                   /\ j.file \in DOMAIN audioDir
                   /\ audioDir[j.file] = j.out

\* A batch was answered whose second item completed first and whose first item
\* failed afterwards.
C6_Witness ==
  \E r \in DOMAIN reqs :
    LET req == reqs[r] IN
    /\ req.route = "/batch-url" /\ Len(req.jobs) = 2 /\ req.status = 200
    /\ req.jobs[1].pc = "failed" /\ req.jobs[2].pc = "done"
    /\ req.jobs[2].invoked /\ req.jobs[2].doneAt < req.jobs[1].doneAt

\* ---- C7
\* C7: with a secret configured, a /vapi-tts request whose x-vapi-signature is
\* absent or different is answered 401 "Unauthorized" and makes no synthesize
\* call; without a secret no request is answered 401.
C7_WebhookAuth ==
  \A r \in DOMAIN reqs :
    reqs[r].route = "/vapi-tts" =>
      /\ (reqs[r].expected # Undefined /\ reqs[r].token # reqs[r].expected)
           => (reqs[r].status = 401 /\ reqs[r].error = "Unauthorized" /\ reqs[r].jobs = <<>>)
      /\ reqs[r].status = 401 =>
           (reqs[r].expected # Undefined /\ reqs[r].token # reqs[r].expected)

\* A request without the header was refused although its payload was good.
C7_Witness ==
  \E r \in DOMAIN reqs :
    /\ reqs[r].route = "/vapi-tts" /\ reqs[r].expected = Str(<<"abc">>)
    /\ reqs[r].token = Undefined /\ reqs[r].message = VapiGood /\ reqs[r].status = 401

\* ---- C8
\* C8 as stated: two calls of one kind whose (text, voice, model) differ never
\* have the same fingerprint, whatever the strings contain.
C8_KeyInjective ==
  \A p \in Calls : \A q \in Calls :
    (JobAt(p).kind = JobAt(q).kind /\ Triple(JobAt(p)) # Triple(JobAt(q)))
      => JobAt(p).key # JobAt(q).key

\* The strings of at most MaxStrLen characters over ':' and one other character.
MaxStrLen == 2
Strings == UNION { [1..n -> {":", "a"}] : n \in 0..MaxStrLen }

\* s neither contains the delimiter "::" nor ends in ':'.
Plain(s) ==
  /\ \A k \in 1..(Len(s) - 1) : ~(s[k] = ":" /\ s[k + 1] = ":")
  /\ s # <<>> => s[Len(s)] # ":"

\* C8 amended: triples whose voice and model neither contain "::" nor end in
\* ':' have different fingerprints when they differ in any component (the text
\* is arbitrary), so calls for such triples never share a cache entry.
C8_KeyInjectiveOnPlain ==
  /\ \A p \in Calls : \A q \in Calls :
       LET a == JobAt(p)
           b == JobAt(q)
       IN ( /\ a.kind = b.kind /\ Triple(a) # Triple(b)
            /\ Plain(a.voice) /\ Plain(a.model) /\ Plain(b.voice) /\ Plain(b.model) )
          => a.key # b.key
  /\ (reqs = <<>> /\ now = 0) =>
       \A m1 \in Strings : \A v1 \in Strings : \A m2 \in Strings : \A v2 \in Strings :
         (Plain(m1) /\ Plain(v1) /\ Plain(m2) /\ Plain(v2)) =>
           \A t1 \in Strings : \A t2 \in Strings :
             <<t1, v1, m1>> # <<t2, v2, m2>>
               => /\ makeKey(t1, v1, m1) # makeKey(t2, v2, m2)
                  /\ WavKey(t1, v1, m1) # WavKey(t2, v2, m2)
                  /\ PcmKey(t1, v1, m1) # PcmKey(t2, v2, m2)

\* Two WAV calls whose texts differ, one of them containing "::", have stored
\* two entries.
C8_Witness ==
  \E p \in Calls : \E q \in Calls :
    LET a == JobAt(p)
        b == JobAt(q)
    IN /\ a.kind = "wav" /\ b.kind = "wav"
       /\ a.text = <<"h", ":", ":", "h">> /\ b.text = <<"h">>
       /\ a.voice = DEFAULT_VOICE /\ b.voice = DEFAULT_VOICE /\ a.model = b.model
       /\ a.pc = "done" /\ b.pc = "done"
       /\ a.key \in DOMAIN audioCache /\ b.key \in DOMAIN audioCache /\ a.key # b.key

\* ---- C9
\* C9: when two calls of one kind have the same voice and model and texts that
\* are equal after trimming, they have the same fingerprint, and the later
\* one, begun after the earlier one completed and less than CACHE_TTL_MS after
\* the earlier one began, is served from the cache.
C9_TrimBeforeKeying ==
  \A p \in Calls : \A q \in Calls :
    LET a == JobAt(p)
        b == JobAt(q)
    IN ( /\ a.kind = b.kind /\ a.voice = b.voice /\ a.model = b.model
         /\ Trim(a.text) = Trim(b.text) )
       => /\ a.key = b.key
          /\ ( a.pc = "done" /\ a.invoked /\ a.doneAt < b.now
               /\ b.now - a.now < CACHE_TTL_MS ) => b.hit

\* ---- C10
\* C10: an authorized voice-request with a non-blank text and a numeric
\* sampleRate other than 24000 (0 included) is answered 400 and makes no
\* synthesize call.
C10_SampleRateRejected ==
  \A r \in DOMAIN reqs :
    LET req == reqs[r] IN
    ( /\ req.route = "/vapi-tts"
      /\ ~(req.expected # Undefined /\ req.token # req.expected)
      /\ req.message # Undefined
      /\ req.message.type = Str(<<"voice-request">>)
      /\ ~BlankText(req.message.text)
      /\ req.message.sampleRate # Undefined
      /\ req.message.sampleRate.v # 24000 )
    => (req.status = 400 /\ req.jobs = <<>>)

\* ---- C11
\* The entry e of a cache of the given kind under key k was inserted by a call
\* that completed at the instant e.createdAt.
StampedAtInsertion(kind, k, e) ==
  \E q \in Calls :
    LET s == JobAt(q) IN
    /\ s.kind = kind /\ s.invoked /\ s.pc = "done" /\ s.key = k /\ s.out = e.buf
    /\ s.doneAt = e.createdAt

\* C11: every entry of either cache carries as createdAt the clock value at
\* the moment it was inserted, i.e. the instant at which the call that stored
\* it completed, however long the backend call took.
C11_StampedAtInsertion ==
  /\ \A k \in DOMAIN audioCache : StampedAtInsertion("wav", k, audioCache[k])
  /\ \A k \in DOMAIN pcmCache : StampedAtInsertion("pcm", k, pcmCache[k])

\* ---- C12
\* The cache a call of the given kind reads and writes.
CacheOf(kind) == IF kind = "wav" THEN audioCache ELSE pcmCache

\* The bytes a call returns for the payload of its own backend response.
OwnPayload(j) ==
  LET pcm == BufferFromBase64(j.base64.v) IN
  IF j.kind = "wav" THEN pcm16ToWav(pcm, 24000, 1, 16) ELSE pcm

\* Call b read the cache while call a, begun no later, had not stored yet.
Raced(a, b) == a.now <= b.now /\ (a.pc = "await" \/ b.now < a.doneAt)

\* Two calls for one fingerprint that both missed, the second before the first
\* had stored, both went to the backend, and each returns its own payload.
RaceInvokesBoth ==
  \A p \in Calls : \A q \in Calls :
    LET a == JobAt(p)
        b == JobAt(q)
    IN (p # q /\ a.key = b.key /\ ~a.hit /\ ~b.hit /\ Raced(a, b))
       => /\ a.invoked /\ b.invoked
          /\ a.pc = "done" => a.out = OwnPayload(a)
          /\ b.pc = "done" => b.out = OwnPayload(b)
          /\ a.pc = "failed" => a.out = <<>>
          /\ b.pc = "failed" => b.out = <<>>

\* A step in which a backend call completes successfully leaves the entry of
\* its fingerprint holding that call's payload.
CompletionOverwrites ==
  \A p \in Calls :
    LET j == JobAt(p)
        j2 == reqs'[p[1]].jobs[p[2]]
        cache2 == IF j.kind = "wav" THEN audioCache' ELSE pcmCache'
    IN (j.pc = "await" /\ j2.pc = "done")
       => (j.key \in DOMAIN cache2 /\ cache2[j.key].buf = j2.out)

\* C12: two calls for the same fingerprint that both read a miss before either
\* stored each invoke the backend (no deduplication, no waiting) and each
\* return their own payload; every successful completion writes the cache, so
\* after both the entry holds the payload of the call that completed last.
C12_MissRace == []RaceInvokesBoth /\ [][CompletionOverwrites]_vars

\* Two calls for one fingerprint raced and obtained different payloads; the one
\* begun first completed last and the entry holds its payload.
C12_Witness ==
  \E p \in Calls : \E q \in Calls :
    LET a == JobAt(p)
        b == JobAt(q)
    IN /\ p # q /\ a.key = b.key /\ a.invoked /\ b.invoked
       /\ a.pc = "done" /\ b.pc = "done" /\ a.out # b.out
       /\ a.now <= b.now /\ b.now < a.doneAt /\ b.doneAt < a.doneAt
       /\ CacheOf(a.kind)[a.key].buf = a.out

\* ---- C13
\* The channel count of the fixed audio profile (mono).
Channels == 1

\* C13: every entry stored in pcmCache has a payload of whole 16-bit samples:
\* its byte length is even and a multiple of the channel count, whatever base64
\* payload the backend returned.
C13_PcmWholeSamples ==
  \A k \in DOMAIN pcmCache :
    /\ Len(pcmCache[k].buf) % 2 = 0
    /\ Len(pcmCache[k].buf) % Channels = 0

\* ---- C14
\* The messages of the errors a synthesize call fails with: the backend's own
\* rejection, or the one thrown for a response without an audio payload.
NoAudio == <<"No audio produced by model">>
FailureMessages == { <<"backend error">>, NoAudio }

\* A call fails only after the backend rejected or returned no audio payload,
\* with that error and without bytes or a file; a call that went to the backend
\* and returned had an audio payload; and a call for a fingerprint all of whose
\* other calls failed finds no entry and invokes the backend.
FailureState ==
  /\ \A p \in Calls :
       LET j == JobAt(p) IN
       /\ j.pc = "failed" =>
            /\ j.invoked /\ ~Truthy(j.base64) /\ j.error \in FailureMessages
            /\ j.out = <<>> /\ j.file = 0
       /\ (j.pc = "done" /\ j.invoked) => (Truthy(j.base64) /\ j.error = <<>>)
  /\ \A q \in Calls :
       ( /\ \E p \in Calls : p # q /\ JobAt(p).key = JobAt(q).key
         /\ \A p \in Calls : (p # q /\ JobAt(p).key = JobAt(q).key) => JobAt(p).pc = "failed" )
       => (~JobAt(q).hit /\ JobAt(q).invoked /\ JobAt(q).seenAt = -1)

\* A step in which a call fails leaves both caches and the audio directory
\* exactly as they were.
FailureStep ==
  \A p \in Calls :
    (JobAt(p).pc = "await" /\ reqs'[p[1]].jobs[p[2]].pc = "failed")
      => (audioCache' = audioCache /\ pcmCache' = pcmCache /\ audioDir' = audioDir)

\* C14: when the backend call throws or returns a response without an audio
\* payload, the synthesize call fails with an error ("No audio produced by
\* model" for the missing payload) and both caches stay exactly as they were
\* (nothing inserted, overwritten, re-stamped or removed), so a later call for
\* the same fingerprint invokes the backend again.
C14_FailureKeepsCache == []FailureState /\ [][FailureStep]_vars

\* A call that found an expired entry failed for want of an audio payload and
\* the entry is still there with the stamp the call saw; another call for a
\* fingerprint that had only a failed call went to the backend.
C14_Witness ==
  /\ \E p \in Calls :
       LET j == JobAt(p) IN
       /\ j.pc = "failed" /\ j.error = NoAudio /\ j.seenAt >= 0
       /\ j.key \in DOMAIN CacheOf(j.kind)
       /\ CacheOf(j.kind)[j.key].createdAt = j.seenAt
  /\ \E p \in Calls : \E q \in Calls :
       /\ p[1] < q[1] /\ JobAt(p).key = JobAt(q).key
       /\ JobAt(p).pc = "failed" /\ JobAt(p).doneAt <= JobAt(q).now /\ JobAt(q).invoked

====
